---- MODULE Spec2Model ----
(***************************************************************************)
(* Version-evolution subsystem of proj: the schema upgrade command         *)
(* (src/src/commands/upgrade.rs) and the self-update pipeline              *)
(* (src/src/auto_update.rs, src/src/commands/update_check.rs).             *)
(*                                                                         *)
(* A version string is modelled as the sequence of its dot-separated       *)
(* components: "1.3" is <<1, 3>>, "1.3.0" is <<1, 3, 0>>.  A component     *)
(* that does not parse as u32 (empty, alphabetic) is NonNumeric.           *)
(***************************************************************************)
EXTENDS Integers, Sequences, FiniteSets, TLC

VARIABLES
    \* ---- project stores (one per registry entry) ----
    pathExists,     \* [Projects -> BOOLEAN]  the project directory exists
    db,             \* [Projects -> {"ok", "missing", "unreadable"}]  .tracking/tracking.db
                    \* ("unreadable": the file exists, project_meta cannot be read)
    recVersion,     \* [Projects -> version string or NoVersion]  project_meta.schema_version
    structs,        \* [Projects -> SUBSET Structures]  schema objects present in the store
    cfgState,       \* [Projects -> CfgStates]  .tracking/config.json
    cfgVersion,     \* [Projects -> version string]  config.json "schema_version"
    \* ---- the running upgrade command ----
    extraCheck,     \* build option of the SQL binding: execute() rejects queries
    pc,             \* position of the command
    caller,         \* "single" or "fleet": who invoked apply_upgrades
    compat,         \* [Projects -> UpgradeCompatibility or NoCompat] of this command
    infoMode,       \* --info of this command
    confirmed,      \* the mutating path of the fleet gate was taken
    cur,            \* project apply_upgrades is working on
    plan,           \* changes apply_upgrades still has to visit
    upgradeable,    \* fleet bucket (sequence, registry order)
    up_to_date,     \* fleet bucket
    errors,         \* fleet bucket: sequence of <<project, reason>>
    queue,          \* rest of the upgradeable bucket still to be applied
    success_count,
    fail_count,
    cmdResult,      \* how the command returned or, in the fleet loop, how it
                    \* passed the gate ("auto": --auto, "yes": typed answer)
    \* ---- history of the current invocation ----
    ranOps,         \* changes whose sql was executed by the current apply_upgrades
    probed,         \* changes the current apply_upgrades found already applied
    startStructs,   \* structs[cur] when apply_upgrades was entered
    startVersion,   \* recVersion[cur] when apply_upgrades was entered
    startCfg,       \* <<cfgState[cur], cfgVersion[cur]>> when apply_upgrades was entered
    startPartial,   \* partial[cur] when apply_upgrades was entered
    faulted,        \* an environment fault hit the current apply_upgrades
    lastResult,     \* outcome of the last apply_upgrades
    partial,        \* [Projects -> BOOLEAN]  an earlier apply left steps behind unrecorded
    applyCalls,     \* [Projects -> Nat]  apply_upgrades invocations of this fleet run
    applyFailed,    \* projects whose apply_upgrades returned Err in this fleet run
    \* ---- self-update: files ----
    stageDir,       \* ~/.proj/pending_update exists
    stageBin,       \* pending_update/proj: "none", "empty", "partial" or "full"
    stageMarker,    \* pending_update/version exists
    exe,            \* the install path: "old", "new", "latest", "partial" (a truncated new
                    \* binary) or "torn" (overwritten in place, not finished)
    \* ---- self-update: processes ----
    sp,             \* position of the starting process in main / check_and_apply_pending
    dl,             \* position of the download thread ("idle": no thread)
    dlInode,        \* where the file the thread is writing lives: "stage" or "exe"
    \* ---- history of the current start ----
    sawStage,       \* the starting process found pending_update/proj
    overlap,        \* a download thread of another process was alive at this start
    swapped,        \* what the swap of this start installed: "none", "complete",
                    \* "incomplete"
    \* ---- self-update: the chain of re-executions of one user command ----
    depth,          \* parents waiting in Command::status() for their child
    swaps,          \* swaps made since the user started the command
    image,          \* the executable the current process is running
    childEnd,       \* how the process that ran the command ended
    parentExit,     \* exit status of the waiting parents ("none": no parent)
    \* ---- a call of one of the version functions ----
    va,             \* first argument (a version string)
    vb,             \* second argument
    vout,           \* [fn |-> the function called, val |-> what it returned]
    \* ---- release poller (update_check.rs) ----
    cache,          \* ~/.proj/version_cache.json: [state |-> "missing", "ok" or
                    \* "corrupt", latest_version |-> the version it holds]
    cacheAge,       \* hours since the cache file was modified (negative: the
                    \* modification time lies in the future)
    cacheWritable,  \* the cache file can be written
    feedUp,         \* the release feed answers within the timeout
    feed,           \* tag of the latest release, 'v' stripped
    pkg_version,    \* CARGO_PKG_VERSION of the running tool
    latest_version, \* what check_and_notify settled on (None: nothing)
    fetches,        \* network fetches made by this invocation
    pollResult,     \* "none", or what the call returned
    \* ---- schema backups (~/.proj/backups) and `rollback --schema` ----
    backups,        \* [Projects -> NoBackup or the snapshot of .tracking kept]
    rollbackResult  \* <<>>, or <<project, outcome>> of the rollback run after
                    \* the command

storeVars == <<pathExists, db, recVersion, structs, cfgState, cfgVersion>>
cmdVars   == <<extraCheck, pc, caller, compat, infoMode, confirmed, cur, plan,
               upgradeable, up_to_date, errors, queue, success_count, fail_count,
               cmdResult>>
histVars  == <<ranOps, probed, startStructs, startVersion, startCfg, startPartial, faulted,
               lastResult, partial, applyCalls, applyFailed>>
verVars == <<va, vb, vout>>
pollVars == <<cache, cacheAge, cacheWritable, feedUp, feed, pkg_version,
              latest_version, fetches, pollResult>>
\* what the self-update steps leave alone / what the upgrade steps leave alone
bkVars == <<backups, rollbackResult>>
migVars == <<storeVars, cmdVars, histVars, verVars, pollVars, bkVars>>
fileVars == <<stageDir, stageBin, stageMarker, exe>>
chainVars == <<depth, swaps, image, childEnd, parentExit>>
suVars == <<fileVars, sp, dl, dlInode, sawStage, overlap, swapped, chainVars,
            verVars, pollVars, bkVars>>
vars == <<migVars, suVars>>

(***************************************************************************)
(* Version strings                                                         *)
(***************************************************************************)
NonNumeric == -1

\* main.rs: pub const SCHEMA_VERSION: &str = "1.3";
SCHEMA_VERSION == <<1, 3>>

\* project_meta holds no schema_version row (no version string is empty
\* as a sequence: "" splits into one non-numeric component)
NoVersion == <<>>

\* s.split('.').filter_map(|s| s.parse().ok()).collect()
Parts(s) == SelectSeq(s, LAMBDA c : c # NonNumeric)

Min(a, b) == IF a <= b THEN a ELSE b

\* std::cmp::Ordering as -1 (Less), 0 (Equal), 1 (Greater)
Cmp(x, y) == IF x < y THEN -1 ELSE IF x > y THEN 1 ELSE 0

RECURSIVE CompareFrom(_, _, _)
CompareFrom(a, b, i) ==
    IF i > Min(Len(a), Len(b)) THEN Cmp(Len(a), Len(b))
    ELSE IF a[i] # b[i] THEN Cmp(a[i], b[i])
    ELSE CompareFrom(a, b, i + 1)

compare_versions(a, b) == CompareFrom(a, b, 1)

\* update_check.rs parse_version: Some((major, minor, patch)) or None.
\* Three or more components: the first three must be numeric (the rest is
\* ignored); two components: patch is 0; otherwise None.
None == <<>>

parse_version(s) ==
    IF Len(s) >= 3
    THEN IF s[1] # NonNumeric /\ s[2] # NonNumeric /\ s[3] # NonNumeric
         THEN <<s[1], s[2], s[3]>> ELSE None
    ELSE IF Len(s) = 2
    THEN IF s[1] # NonNumeric /\ s[2] # NonNumeric
         THEN <<s[1], s[2], 0>> ELSE None
    ELSE None

\* (l_maj, l_min, l_pat) compared with (c_maj, c_min, c_pat): Rust compares
\* tuples component by component, the first difference decides
TupleCmp(x, y) ==
    IF x[1] # y[1] THEN Cmp(x[1], y[1])
    ELSE IF x[2] # y[2] THEN Cmp(x[2], y[2])
    ELSE Cmp(x[3], y[3])

\* Mutant: an equal version counts as newer.
is_newer_OrEqual(current, latest) ==
    LET c == parse_version(current)
        l == parse_version(latest)
    IN  IF c # None /\ l # None THEN TupleCmp(l, c) >= 0 ELSE FALSE

\* update_check.rs is_newer: true if latest > current
is_newer(current, latest) ==
    LET c == parse_version(current)
        l == parse_version(latest)
    IN  IF c # None /\ l # None THEN TupleCmp(l, c) = 1 ELSE FALSE

(***************************************************************************)
(* Migration registry                                                      *)
(***************************************************************************)
Structures == {"context_snapshots", "compressed_sessions",
               "idx_context_snapshots_session", "full_context_shown",
               "tracking_fts"}

UPGRADE_REGISTRY == <<
    [from_version |-> <<1, 0>>, to_version |-> <<1, 1>>,
     changes |-> <<"context_snapshots", "compressed_sessions",
                   "idx_context_snapshots_session">>],
    [from_version |-> <<1, 1>>, to_version |-> <<1, 2>>,
     changes |-> <<"full_context_shown">>],
    [from_version |-> <<1, 2>>, to_version |-> <<1, 3>>,
     changes |-> <<"tracking_fts">> ] >>

\* Mutant: the lower bound current <= from is not tested.
get_pending_upgrades_NoLower(current, target) ==
    SelectSeq(UPGRADE_REGISTRY, LAMBDA u :
        compare_versions(Parts(u.to_version), Parts(target)) <= 0)

\* "Include if current <= from < to <= target"
get_pending_upgrades(current, target) ==
    SelectSeq(UPGRADE_REGISTRY, LAMBDA u :
        /\ compare_versions(Parts(current), Parts(u.from_version)) <= 0
        /\ compare_versions(Parts(u.to_version), Parts(target)) <= 0)

RECURSIVE Flatten(_)
Flatten(us) == IF us = <<>> THEN <<>> ELSE Head(us).changes \o Flatten(Tail(us))

Range(s) == {s[i] : i \in 1..Len(s)}

(***************************************************************************)
(* SQL of the registry against a store whose schema objects are S          *)
(***************************************************************************)
\* Outcome of a change's verify query: it yields a row, yields no row, or
\* fails to prepare.  The sqlite_master probes yield a row iff the object
\* exists; "SELECT full_context_shown FROM sessions LIMIT 0" never yields a
\* row and fails to prepare iff the column is missing.
VerifyQuery(change, S) ==
    IF change = "full_context_shown"
    THEN IF change \in S THEN "norows" ELSE "error"
    ELSE IF change \in S THEN "row" ELSE "norows"

\* conn.query_row(change.verify, [], |_| Ok(())).is_ok()
query_row_ok(change, S) == VerifyQuery(change, S) = "row"

\* conn.execute(change.verify, []) is Ok: the statement steps to DONE, unless
\* the binding is built to reject queries in execute().
execute_ok(change, S, extra) == ~extra /\ VerifyQuery(change, S) = "norows"

\* apply_upgrades: let already_applied = ...
ApplierProbe(change, S) == query_row_ok(change, S)

\* check_upgrade_compatibility: status of one change
CheckerStatus(change, S, extra) ==
    IF execute_ok(change, S, extra) THEN "already_applied"
    ELSE IF query_row_ok(change, S) THEN "already_applied"
    ELSE "pending"

\* conn.execute_batch(change.sql): does the statement succeed on S?
\* CREATE ... IF NOT EXISTS succeeds whether or not the object exists; the
\* index needs its table; ADD COLUMN fails on a duplicate column.
SqlOk(change, S) ==
    CASE change = "idx_context_snapshots_session" -> "context_snapshots" \in S
      [] change = "full_context_shown"            -> change \notin S
      [] OTHER                                    -> TRUE

SqlEffect(change, S) == S \cup {change}

(***************************************************************************)
(* Stores                                                                  *)
(***************************************************************************)
Projects == {"A", "B", "C"}

\* registry.registered_projects, in file order
RegisteredProjects == <<"A", "B", "C">>

CfgStates == {"absent", "ok", "unparseable", "unreadable", "readonly"}

\* Mutant: the recorded version is not looked at.
ReadVersion_Ignored(v) == <<1, 0>>

\* get_schema_version(&conn)?.unwrap_or_else(|| "1.0".to_string())
ReadVersion(v) == IF v = NoVersion THEN <<1, 0>> ELSE v

\* open_database + get_schema_version succeed on project p
Reachable(p) == pathExists[p] /\ db[p] = "ok"

\* Connection::open creates the database file when it is missing and its
\* directory exists; the new file has no project_meta table.
DbAfterOpen(p) ==
    IF pathExists[p] /\ db[p] = "missing" THEN "unreadable" ELSE db[p]

(***************************************************************************)
(* Compatibility checker                                                   *)
(***************************************************************************)
NoCompat == [result |-> "none", can_upgrade |-> FALSE, current_version |-> NoVersion,
             pending_upgrades |-> <<>>, safe_changes |-> <<>>, warnings |-> {}]

StatusOf(changes, S, extra) ==
    [i \in 1..Len(changes) |->
        [change |-> changes[i], status |-> CheckerStatus(changes[i], S, extra)]]

\* fn check_upgrade_compatibility(db_path) on a store with recorded version v
\* and schema objects S; the target version is SCHEMA_VERSION.
check_upgrade_compatibility(v, S, extra) ==
    LET current_version == ReadVersion(v)
        pending == get_pending_upgrades(current_version, SCHEMA_VERSION)
    IN  IF current_version = SCHEMA_VERSION
        THEN [result |-> "ok", can_upgrade |-> FALSE,
              current_version |-> current_version, pending_upgrades |-> <<>>,
              safe_changes |-> <<>>, warnings |-> {}]
        ELSE IF pending = <<>>
        THEN [result |-> "ok", can_upgrade |-> FALSE,
              current_version |-> current_version, pending_upgrades |-> <<>>,
              safe_changes |-> <<>>, warnings |-> {"No upgrade path found"}]
        ELSE [result |-> "ok", can_upgrade |-> TRUE,
              current_version |-> current_version, pending_upgrades |-> pending,
              safe_changes |-> StatusOf(Flatten(pending), S, extra),
              warnings |-> {}]

ErrCompat == [NoCompat EXCEPT !.result = "err"]

\* check_upgrade_compatibility on project p (Err when the store cannot be read)
CheckProject(p) ==
    IF Reachable(p)
    THEN check_upgrade_compatibility(recVersion[p], structs[p], extraCheck)
    ELSE ErrCompat

(***************************************************************************)
(* Fleet bucketing: upgrade_all_projects, lines 136-168                    *)
(***************************************************************************)
\* Mutant: the buckets are told apart as in upgrade_current_project (a
\* project that cannot be upgraded counts as up to date) and a stale entry
\* gets the reason of a missing store.
BucketOf_Conflated(p) ==
    IF ~pathExists[p] THEN <<"errors", "No tracking.db">>
    ELSE IF db[p] = "missing" THEN <<"errors", "No tracking.db">>
    ELSE LET c == CheckProject(p) IN
         IF c.result = "err" THEN <<"errors", "store unreadable">>
         ELSE IF ~c.can_upgrade THEN <<"up_to_date", "">>
         ELSE <<"upgradeable", "">>

\* bucket of one registry entry: <<bucket, reason>>
BucketOf(p) ==
    IF ~pathExists[p] THEN <<"errors", "Path not found">>
    ELSE IF db[p] = "missing" THEN <<"errors", "No tracking.db">>
    ELSE LET c == CheckProject(p) IN
         IF c.result = "err" THEN <<"errors", "store unreadable">>
         ELSE IF c.current_version = SCHEMA_VERSION THEN <<"up_to_date", "">>
         ELSE IF c.can_upgrade THEN <<"upgradeable", "">>
         ELSE <<"errors", "">>

InBucket(b) == SelectSeq(RegisteredProjects, LAMBDA p : BucketOf(p)[1] = b)

ErrorsOf(ps) == [i \in 1..Len(ps) |-> <<ps[i], BucketOf(ps[i])[2]>>]

(***************************************************************************)
(* Initial stores                                                          *)
(***************************************************************************)
\* Recorded versions a store can carry: the versions the tool has stamped
\* (1.0 .. 1.3, or no row at all) and strings written by other means.
StoreVersions == { <<1, 0>>, <<1, 1>>, <<1, 2>>, <<1, 3>>, NoVersion,
                   <<0, 9>>, <<1, 0, 0>>, <<1, 3, 0>>, <<1, 4>>, <<2, 0>>,
                   <<NonNumeric>> }

\* Recorded versions of the stores of a fleet run
FleetVersions == { <<1, 2>>, <<1, 3>> }

\* The schema objects of a store that is consistent with version v: the
\* changes of every batch up to v (schema.rs creates all of them at 1.3).
StructsAt(v) ==
    LET w == ReadVersion(v)
        upTo == SelectSeq(UPGRADE_REGISTRY, LAMBDA u :
                    /\ Parts(w) = w /\ Len(w) >= 2
                    /\ \/ w[1] > u.to_version[1]
                       \/ w[1] = u.to_version[1] /\ w[2] >= u.to_version[2])
    IN  Range(Flatten(upTo))

\* A project is broken (directory gone, tracking.db gone, tracking.db
\* unreadable) or a readable store consistent with one of the versions vs
\* with a config file in one of the states cs.
Gone == [path |-> FALSE, db |-> "missing", ver |-> SCHEMA_VERSION, cfg |-> "ok"]

Broken == {Gone, [Gone EXCEPT !.path = TRUE],
           [Gone EXCEPT !.path = TRUE, !.db = "unreadable"]}

StoreKinds(vs, cs) ==
    {[path |-> TRUE, db |-> "ok", ver |-> v, cfg |-> c] : v \in vs, c \in cs}

InitStores(k) ==
    /\ pathExists = [p \in Projects |-> k[p].path]
    /\ db = [p \in Projects |-> k[p].db]
    /\ recVersion = [p \in Projects |-> k[p].ver]
    /\ cfgState = [p \in Projects |-> k[p].cfg]
    /\ structs = [p \in Projects |-> StructsAt(k[p].ver)]
    /\ cfgVersion = [p \in Projects |-> ReadVersion(k[p].ver)]

\* a project without a backup directory under ~/.proj/backups
NoBackup == [kept |-> FALSE, recVersion |-> NoVersion, structs |-> {},
             cfgState |-> "absent", cfgVersion |-> NoVersion]

\* no backup has been made and no rollback has been run
NoRollback ==
    /\ backups = [p \in Projects |-> NoBackup]
    /\ rollbackResult = <<>>

InitCommand ==
    /\ extraCheck \in BOOLEAN
    /\ pc = "idle"
    /\ caller = "single"
    /\ compat = [p \in Projects |-> NoCompat]
    /\ infoMode = FALSE
    /\ confirmed = FALSE
    /\ cur = "A"
    /\ plan = <<>>
    /\ upgradeable = <<>>
    /\ up_to_date = <<>>
    /\ errors = <<>>
    /\ queue = <<>>
    /\ success_count = 0
    /\ fail_count = 0
    /\ cmdResult = "none"
    /\ ranOps = {}
    /\ probed = {}
    /\ startStructs = {}
    /\ startVersion = NoVersion
    /\ startCfg = <<"absent", NoVersion>>
    /\ startPartial = FALSE
    /\ faulted = FALSE
    /\ lastResult = "none"
    /\ partial = [p \in Projects |-> FALSE]
    /\ applyCalls = [p \in Projects |-> 0]
    /\ applyFailed = {}

(***************************************************************************)
(* apply_upgrades                                                          *)
(***************************************************************************)
\* apply_upgrades(p) returns res to its caller: upgrade_current_project
\* propagates it, the loop of upgrade_all_projects counts it and goes on.
ApplyReturn(p, who, res) ==
    /\ lastResult' = res
    /\ partial' = [partial EXCEPT ![p] =
                      IF res = "ok" THEN FALSE
                      ELSE @ \/ (structs'[p] # startStructs' /\ recVersion'[p] = startVersion')]
    /\ IF who = "single"
       THEN /\ pc' = "returned"
            /\ cmdResult' = IF res = "ok" THEN "ok" ELSE "err"
            /\ UNCHANGED <<success_count, fail_count, applyFailed>>
       ELSE /\ pc' = "fleet_loop"
            /\ UNCHANGED cmdResult
            /\ IF res = "ok"
               THEN /\ success_count' = success_count + 1
                    /\ UNCHANGED <<fail_count, applyFailed>>
               ELSE /\ fail_count' = fail_count + 1
                    /\ applyFailed' = applyFailed \cup {p}
                    /\ UNCHANGED success_count

\* lines 375-379: open the store, read its version, compute the pending batches
ApplyEnter(p, who) ==
    /\ cur' = p
    /\ caller' = who
    /\ ranOps' = {}
    /\ probed' = {}
    /\ faulted' = FALSE
    /\ startStructs' = structs[p]
    /\ startVersion' = recVersion[p]
    /\ startCfg' = <<cfgState[p], cfgVersion[p]>>
    /\ startPartial' = partial[p]
    /\ db' = [db EXCEPT ![p] = DbAfterOpen(p)]
    /\ UNCHANGED <<pathExists, recVersion, structs, cfgState, cfgVersion>>
    /\ IF Reachable(p)
       THEN /\ plan' = Flatten(get_pending_upgrades(ReadVersion(recVersion[p]),
                                                    SCHEMA_VERSION))
            /\ pc' = "apply"
            /\ lastResult' = "none"
            /\ UNCHANGED <<cmdResult, success_count, fail_count, applyFailed,
                           partial>>
       ELSE /\ plan' = <<>>
            /\ ApplyReturn(p, who, "open_failed")

applyFrame == <<pathExists, db, extraCheck, caller, compat, infoMode, confirmed,
                cur, upgradeable, up_to_date, errors, queue, startStructs,
                startVersion, startCfg, startPartial, applyCalls>>

\* lines 384-386: the probe holds, the change is skipped
ApplySkip ==
    /\ UNCHANGED suVars
    /\ pc = "apply" /\ plan # <<>>
    /\ ApplierProbe(Head(plan), structs[cur])
    /\ plan' = Tail(plan)
    /\ probed' = probed \cup {Head(plan)}
    /\ UNCHANGED <<applyFrame, recVersion, structs, cfgState, cfgVersion, pc,
                   cmdResult, success_count, fail_count, applyFailed, ranOps,
                   faulted, lastResult, partial>>

\* lines 386-388: the probe fails, the sql runs and succeeds
ApplyChange ==
    /\ UNCHANGED suVars
    /\ pc = "apply" /\ plan # <<>>
    /\ ~ApplierProbe(Head(plan), structs[cur])
    /\ SqlOk(Head(plan), structs[cur])
    /\ plan' = Tail(plan)
    /\ ranOps' = ranOps \cup {Head(plan)}
    /\ structs' = [structs EXCEPT ![cur] = SqlEffect(Head(plan), @)]
    /\ UNCHANGED <<applyFrame, recVersion, cfgState, cfgVersion, pc, cmdResult,
                   success_count, fail_count, applyFailed, probed, faulted,
                   lastResult, partial>>

\* Mutant: the version is recorded although a change failed.
ApplyChangeFails_Records ==
    /\ UNCHANGED suVars
    /\ pc = "apply" /\ plan # <<>>
    /\ ~ApplierProbe(Head(plan), structs[cur])
    /\ \E fault \in BOOLEAN :
          /\ fault \/ ~SqlOk(Head(plan), structs[cur])
          /\ faulted' = fault
    /\ ranOps' = ranOps \cup {Head(plan)}
    /\ plan' = <<>>
    /\ recVersion' = [recVersion EXCEPT ![cur] = SCHEMA_VERSION]
    /\ UNCHANGED <<applyFrame, structs, cfgState, cfgVersion, probed>>
    /\ ApplyReturn(cur, caller, "step_failed")

\* lines 387-388: the sql fails (the statement is rejected by the store, or
\* the environment fails it: I/O error, locked file, missing fts5 module);
\* apply_upgrades returns "Failed to apply: ..." at once
ApplyChangeFails ==
    /\ UNCHANGED suVars
    /\ pc = "apply" /\ plan # <<>>
    /\ ~ApplierProbe(Head(plan), structs[cur])
    /\ \E fault \in BOOLEAN :
          /\ fault \/ ~SqlOk(Head(plan), structs[cur])
          /\ faulted' = fault
    /\ ranOps' = ranOps \cup {Head(plan)}
    /\ plan' = <<>>
    /\ UNCHANGED <<applyFrame, recVersion, structs, cfgState, cfgVersion, probed>>
    /\ ApplyReturn(cur, caller, "step_failed")

\* line 394: set_schema_version(&conn, SCHEMA_VERSION)?
ApplySetVersion ==
    /\ UNCHANGED suVars
    /\ pc = "apply" /\ plan = <<>>
    /\ UNCHANGED <<applyFrame, structs, cfgState, cfgVersion, ranOps, probed>>
    /\ \E fault \in BOOLEAN :
          IF fault
          THEN /\ faulted' = TRUE
               /\ UNCHANGED <<recVersion, plan>>
               /\ ApplyReturn(cur, caller, "version_failed")
          ELSE /\ recVersion' = [recVersion EXCEPT ![cur] = SCHEMA_VERSION]
               /\ pc' = "config"
               /\ UNCHANGED <<plan, faulted, cmdResult, success_count, fail_count,
                              applyFailed, lastResult, partial>>

\* Outcome of lines 397-404 on a config file in state c
ConfigResult(c) ==
    CASE c = "absent"      -> "ok"             \* config_path.exists() is false
      [] c = "unreadable"  -> "config_failed"  \* read_to_string(config_path)?
      [] c = "unparseable" -> "ok"             \* from_str fails: block skipped
      [] c = "readonly"    -> "config_failed"  \* std::fs::write(...)?
      [] OTHER             -> "ok"

\* Mutant: the config file is left as it is.
ConfigWritten_Never(c) == FALSE

\* the config file's schema_version is rewritten
ConfigWritten(c) == c = "ok"

\* lines 396-406
ApplyConfig ==
    /\ UNCHANGED suVars
    /\ pc = "config"
    /\ cfgVersion' = [cfgVersion EXCEPT ![cur] =
                         IF ConfigWritten(cfgState[cur]) THEN SCHEMA_VERSION ELSE @]
    /\ UNCHANGED <<applyFrame, recVersion, structs, cfgState, plan, ranOps, probed,
                   faulted>>
    /\ ApplyReturn(cur, caller, ConfigResult(cfgState[cur]))

\* What a process that has ended leaves behind: nothing but the stores.
ProcessGone ==
    /\ pc' = "idle"
    /\ caller' = "single"
    /\ compat' = [p \in Projects |-> NoCompat]
    /\ infoMode' = FALSE
    /\ confirmed' = FALSE
    /\ cur' = "A"
    /\ plan' = <<>>
    /\ upgradeable' = <<>>
    /\ up_to_date' = <<>>
    /\ errors' = <<>>
    /\ queue' = <<>>
    /\ success_count' = 0
    /\ fail_count' = 0
    /\ cmdResult' = "none"
    /\ ranOps' = {}
    /\ probed' = {}
    /\ startStructs' = {}
    /\ startVersion' = NoVersion
    /\ startCfg' = <<"absent", NoVersion>>
    /\ startPartial' = FALSE
    /\ faulted' = FALSE
    /\ lastResult' = "none"
    /\ applyCalls' = [p \in Projects |-> 0]
    /\ applyFailed' = {}
    /\ UNCHANGED <<storeVars, extraCheck>>

\* the process is killed while apply_upgrades runs
Interrupt ==
    /\ UNCHANGED suVars
    /\ pc \in {"apply", "config"}
    /\ partial' = [partial EXCEPT ![cur] =
                      @ \/ (structs[cur] # startStructs /\ recVersion[cur] = startVersion)]
    /\ ProcessGone

\* the command has returned to main and the process exits
Exit ==
    /\ UNCHANGED <<fileVars, sp, dl, dlInode, sawStage, overlap, swapped, chainVars,
                   verVars, pollVars, backups>>
    /\ rollbackResult' = <<>>
    /\ pc = "returned"
    /\ UNCHANGED partial
    /\ ProcessGone

(***************************************************************************)
(* upgrade_current_project                                                 *)
(***************************************************************************)
\* load_config(): the project root is found and config.json reads and parses
ConfigLoads(p) == pathExists[p] /\ cfgState[p] \in {"ok", "readonly"}

\* Mutant: --info does not stop the command.
Proceeds_IgnoresInfo(c, info) == c.can_upgrade

Proceeds_Unchecked(c, info) == c.result = "ok" /\ ~info

\* lines 271-304: the command goes on to apply_upgrades (neither the
\* can_upgrade test nor the dry-run test returns)
Proceeds(c, info) == c.can_upgrade /\ ~info

\* lines 264-308, run in project p with or without --info, up to the call
\* of apply_upgrades
UpgradeCurrentProject(p, info) ==
    /\ UNCHANGED suVars
    /\ pc = "idle"
    /\ infoMode' = info
    /\ UNCHANGED <<extraCheck, confirmed, upgradeable, up_to_date, errors, queue,
                   applyCalls>>
    /\ IF ~ConfigLoads(p)
       THEN /\ cmdResult' = "err"
            /\ pc' = "returned"
            /\ UNCHANGED <<storeVars, compat, caller, cur, plan, success_count,
                           fail_count, ranOps, probed, startStructs, startVersion,
                           startCfg, startPartial, faulted, lastResult, partial,
                           applyFailed>>
       ELSE LET c == CheckProject(p) IN
            /\ compat' = [q \in Projects |-> IF q = p THEN c ELSE NoCompat]
            /\ IF Proceeds(c, info)
               THEN ApplyEnter(p, "single")
               ELSE /\ cmdResult' =
                          IF c.result = "err" THEN "err"
                          ELSE IF c.can_upgrade THEN "dry_run"
                          ELSE IF c.current_version = SCHEMA_VERSION THEN "up_to_date"
                          ELSE "cannot_upgrade"
                    /\ db' = [db EXCEPT ![p] = DbAfterOpen(p)]
                    /\ pc' = "returned"
                    /\ UNCHANGED <<pathExists, recVersion, structs, cfgState,
                                   cfgVersion, caller, cur, plan, success_count,
                                   fail_count, ranOps, probed, startStructs,
                                   startVersion, startCfg, startPartial, faulted,
                                   lastResult, partial, applyFailed>>

(***************************************************************************)
(* upgrade_all_projects                                                    *)
(***************************************************************************)
\* Mutant: --auto is honoured before --info is looked at.
Gate_AutoBeforeInfo(nonempty, info, auto, typed) ==
    IF ~nonempty THEN "nothing"
    ELSE IF auto THEN "auto"
    ELSE IF info THEN "dry_run"
    ELSE IF typed THEN "yes"
    ELSE "cancelled"

\* lines 206-228: which way the command leaves the gate.  nonempty: the
\* upgradeable bucket is not empty; typed: the answer at the prompt is "yes"
\* (the prompt is shown only without --auto).
Gate(nonempty, info, auto, typed) ==
    IF ~nonempty THEN "nothing"
    ELSE IF info THEN "dry_run"
    ELSE IF auto THEN "auto"
    ELSE IF typed THEN "yes"
    ELSE "cancelled"

\* lines 123-231: bucketing, summary, dry-run exit and confirmation gate.
UpgradeAllProjects(info, auto, typed) ==
    /\ UNCHANGED suVars
    /\ pc = "idle"
    /\ infoMode' = info
    /\ compat' = [q \in Projects |->
                     IF pathExists[q] /\ db[q] # "missing" THEN CheckProject(q)
                     ELSE NoCompat]
    /\ upgradeable' = InBucket("upgradeable")
    /\ up_to_date' = InBucket("up_to_date")
    /\ errors' = ErrorsOf(InBucket("errors"))
    /\ caller' = "fleet"
    /\ LET g == Gate(InBucket("upgradeable") # <<>>, info, auto, typed)
           go == g \in {"auto", "yes"}
       IN
       /\ confirmed' = go
       /\ queue' = IF go THEN InBucket("upgradeable") ELSE <<>>
       /\ pc' = IF go THEN "fleet_loop" ELSE "returned"
       /\ cmdResult' = g
    /\ UNCHANGED <<storeVars, extraCheck, cur, plan, success_count, fail_count,
                   ranOps, probed, startStructs, startVersion, startCfg,
                   startPartial, faulted, lastResult, partial, applyCalls,
                   applyFailed>>

\* Mutant: the loop gives up once an apply has failed.
FleetRest_StopOnFailure == IF applyFailed = {} THEN Tail(queue) ELSE <<>>

\* the projects the loop of lines 235-254 still visits after this one
FleetRest == Tail(queue)

\* lines 235-239: the loop takes the next upgradeable project and calls
\* apply_upgrades on it
FleetApply ==
    /\ UNCHANGED suVars
    /\ pc = "fleet_loop" /\ queue # <<>>
    /\ queue' = FleetRest
    /\ applyCalls' = [applyCalls EXCEPT ![Head(queue)] = @ + 1]
    /\ UNCHANGED <<extraCheck, compat, infoMode, confirmed, upgradeable,
                   up_to_date, errors>>
    /\ ApplyEnter(Head(queue), "fleet")

\* lines 256-260: the summary line; the command returns Ok
FleetDone ==
    /\ UNCHANGED suVars
    /\ pc = "fleet_loop" /\ queue = <<>>
    /\ pc' = "returned"
    /\ cmdResult' = "complete"
    /\ UNCHANGED <<storeVars, extraCheck, caller, compat, infoMode, confirmed, cur,
                   plan, upgradeable, up_to_date, errors, queue, success_count,
                   fail_count, histVars>>

\* Outside the tool: the tracking.db of a project that the running fleet
\* upgrade has bucketed as upgradeable is deleted before its turn comes.
(***************************************************************************)
(* rollback --schema (rollback.rs)                                         *)
(***************************************************************************)
\* pub fn create_backup: the copy of .tracking of project p that replaces
\* the project's earlier backup; restore finds it by backup_metadata.json,
\* which is written last and only if config.json could be read (the version
\* it shows is the one of config.json).  Nothing in the program calls it.
create_backup(p) ==
    [backups EXCEPT ![p] = [kept |-> cfgState[p] \in {"ok", "readonly", "absent"},
                            recVersion |-> recVersion[p],
                            structs |-> structs[p], cfgState |-> cfgState[p],
                            cfgVersion |-> cfgVersion[p]]]

\* fn restore_schema_backup, run in project p once the upgrade command has
\* returned: config.json must exist and parse; bail when no backup of the
\* project is found; else (answer: the confirmation prompt) .tracking is
\* replaced by the backup.
RollbackSchema(p, answer) ==
    /\ pc = "returned"
    /\ pathExists[p]
    /\ LET outcome ==
           IF cfgState[p] = "absent" THEN "no_config"
           ELSE IF cfgState[p] \in {"unparseable", "unreadable"} THEN "err"
           ELSE IF ~backups[p].kept THEN "no_backups"
           ELSE IF ~answer THEN "cancelled"
           ELSE "restored"
       IN /\ rollbackResult' = <<p, outcome>>
          /\ IF outcome = "restored"
             THEN /\ db' = [db EXCEPT ![p] = "ok"]
                  /\ recVersion' = [recVersion EXCEPT ![p] = backups[p].recVersion]
                  /\ structs' = [structs EXCEPT ![p] = backups[p].structs]
                  /\ cfgState' = [cfgState EXCEPT ![p] = backups[p].cfgState]
                  /\ cfgVersion' = [cfgVersion EXCEPT ![p] = backups[p].cfgVersion]
             ELSE UNCHANGED <<db, recVersion, structs, cfgState, cfgVersion>>
    /\ UNCHANGED <<pathExists, cmdVars, histVars, verVars, pollVars, backups,
                   fileVars, sp, dl, dlInode, sawStage, overlap, swapped, chainVars>>

DeleteStore(p) ==
    /\ UNCHANGED suVars
    /\ pc = "fleet_loop"
    /\ p \in Range(queue)
    /\ db[p] = "ok"
    /\ db' = [db EXCEPT ![p] = "missing"]
    /\ UNCHANGED <<pathExists, recVersion, structs, cfgState, cfgVersion, cmdVars,
                   histVars>>

\* Outside this command: while the fleet run is in its loop, another
\* invocation of the tool (an `upgrade` run in project p) upgrades the
\* consistent store of the project the loop visits next; its apply_upgrades
\* ran every pending change, stamped the target and rewrote the config file.
ConcurrentUpgrade(p) ==
    /\ UNCHANGED suVars
    /\ pc = "fleet_loop"
    /\ queue # <<>> /\ p = Head(queue)
    /\ Reachable(p)
    /\ recVersion[p] # SCHEMA_VERSION
    /\ structs[p] = StructsAt(recVersion[p])
    /\ LET pending == get_pending_upgrades(ReadVersion(recVersion[p]), SCHEMA_VERSION) IN
       /\ pending # <<>>
       /\ structs' = [structs EXCEPT ![p] = @ \cup Range(Flatten(pending))]
    /\ recVersion' = [recVersion EXCEPT ![p] = SCHEMA_VERSION]
    /\ cfgVersion' = [cfgVersion EXCEPT ![p] =
                         IF ConfigWritten(cfgState[p]) THEN SCHEMA_VERSION ELSE @]
    /\ UNCHANGED <<pathExists, db, cfgState, cmdVars, histVars>>

(***************************************************************************)
(* Self-update: background download (update_check.rs, download_update)     *)
(***************************************************************************)
InitUpdate ==
    /\ stageDir = FALSE
    /\ stageBin = "none"
    /\ stageMarker = FALSE
    /\ exe = "old"
    /\ sp = "off"
    /\ dl = "idle"
    /\ dlInode = "stage"
    /\ sawStage = FALSE
    /\ overlap = FALSE
    /\ swapped = "none"
    /\ depth = 0
    /\ swaps = 0
    /\ image = "old"
    /\ childEnd = "none"
    /\ parentExit = "none"

\* fs::remove_dir_all(&staging)
StageRemoved ==
    /\ stageDir' = FALSE
    /\ stageBin' = "none"
    /\ stageMarker' = FALSE

\* is_update_staged(version): pending_update/version holds the version
is_update_staged == stageDir /\ stageMarker

\* lines 158-170: the archive is fetched into memory (or the fetch fails and
\* the thread ends, the staging directory untouched)
DlFetch(ok) ==
    /\ dl = "fetch"
    /\ dl' = IF ok THEN "wipe" ELSE "idle"
    /\ UNCHANGED <<migVars, chainVars, fileVars, sp, dlInode, sawStage, overlap, swapped>>

\* lines 176-178: an existing staging directory is removed
DlWipe ==
    /\ dl = "wipe"
    /\ dl' = "mkdir"
    /\ StageRemoved
    /\ UNCHANGED <<migVars, chainVars, exe, sp, dlInode, sawStage, overlap, swapped>>

\* line 179: ensure_dir(&staging)?
DlMkdir ==
    /\ dl = "mkdir"
    /\ dl' = "create"
    /\ stageDir' = TRUE
    /\ UNCHANGED <<migVars, chainVars, stageBin, stageMarker, exe, sp, dlInode, sawStage,
                   overlap, swapped>>

\* archive.unpack(&staging): the entry proj is created (empty) ...
DlCreateFile ==
    /\ dl = "create"
    /\ dl' = "writing"
    /\ stageDir' = TRUE
    /\ stageBin' = "empty"
    /\ dlInode' = "stage"
    /\ UNCHANGED <<migVars, chainVars, stageMarker, exe, sp, sawStage, overlap, swapped>>

\* ... its first bytes are written ...
DlWrite ==
    /\ dl = "writing"
    /\ dl' = "finishing"
    /\ IF dlInode = "stage"
       THEN stageBin' = "partial" /\ UNCHANGED exe
       ELSE exe' = "partial" /\ UNCHANGED stageBin
    /\ UNCHANGED <<migVars, chainVars, stageDir, stageMarker, sp, dlInode, sawStage, overlap, swapped>>

\* ... and its last bytes are written; the file is complete
DlFinishFile ==
    /\ dl = "finishing"
    /\ dl' = "marker"
    /\ IF dlInode = "stage"
       THEN stageBin' = "full" /\ UNCHANGED exe
       ELSE exe' = "new" /\ UNCHANGED stageBin
    /\ UNCHANGED <<migVars, chainVars, stageDir, stageMarker, sp, dlInode, sawStage, overlap, swapped>>

\* lines 188-190: the archive is corrupt or the disk is full; the thread
\* ends and leaves what it has written
DlUnpackFails ==
    /\ dl \in {"create", "writing", "finishing"}
    /\ dl' = "idle"
    /\ UNCHANGED <<migVars, chainVars, fileVars, sp, dlInode, sawStage, overlap, swapped>>

\* line 203: fs::write(staging.join("version"), version)? (fails when the
\* directory has been removed meanwhile)
DlMarker ==
    /\ dl = "marker"
    /\ dl' = "idle"
    /\ stageMarker' = stageDir
    /\ UNCHANGED <<migVars, chainVars, stageDir, stageBin, exe, sp, dlInode, sawStage, overlap, swapped>>

\* The process that spawned the thread returns from main: the detached
\* thread dies wherever it is.
KillDownload ==
    /\ dl # "idle"
    /\ dl' = "idle"
    /\ UNCHANGED <<migVars, chainVars, fileVars, sp, dlInode, sawStage, overlap, swapped>>

(***************************************************************************)
(* Self-update: startup check (auto_update.rs, check_and_apply_pending)    *)
(***************************************************************************)
\* what the install path holds after the staged file b has been moved or
\* copied over it
MaxDepth == 2

Installed_Torn(b) == "partial"

Installed(b) == IF b = "full" THEN "new" ELSE "partial"

\* whether the staged update is the product of a download that ran to its
\* end: binary fully extracted and version marker written
StageComplete == stageBin = "full" /\ stageMarker

\* the install path holds a whole executable of some release
Runnable == {"old", "new", "latest"}

\* the releases in their order: "old" < "new" (the release the download
\* stages) < "latest"
Rank(v) == IF v = "old" THEN 0 ELSE IF v = "new" THEN 1 ELSE 2

\* lines 16-23 as a process begins: if !pending_binary.exists() return
\* Ok(false), else go on to the checks
EnterCheck ==
    /\ image' = exe
    /\ sawStage' = (stageBin # "none")
    /\ swapped' = "none"
    /\ sp' = IF stageBin # "none" THEN "parent" ELSE "dispatch"

\* the user runs a command: main starts and calls check_and_apply_pending
StartProcess ==
    /\ sp = "off"
    /\ exe \in Runnable
    /\ EnterCheck
    /\ overlap' = (dl # "idle")
    /\ depth' = 0
    /\ swaps' = 0
    /\ childEnd' = "none"
    /\ parentExit' = "none"
    /\ UNCHANGED <<migVars, fileVars, dl, dlInode>>

\* between two commands the user installs a later release over the install
\* path by other means than the staged update
InstalledByOtherMeans ==
    /\ sp = "off"
    /\ exe \in Runnable
    /\ \E v \in {"new", "latest"} : Rank(v) > Rank(exe) /\ exe' = v
    /\ UNCHANGED <<migVars, chainVars, stageDir, stageBin, stageMarker, sp, dl,
                   dlInode, sawStage, overlap, swapped>>

\* lines 26-44: current_exe()?, fs::metadata(parent)?, owner write bit.
\* env: "ok", "err" (one of the two calls fails) or "nowrite".
CheckParent(env) ==
    /\ sp = "parent"
    /\ CASE env = "ok"  -> sp' = "meta" /\ UNCHANGED fileVars
         [] env = "err" -> sp' = "dispatch" /\ UNCHANGED fileVars
         [] OTHER       -> sp' = "dispatch" /\ StageRemoved /\ UNCHANGED exe
    /\ UNCHANGED <<migVars, chainVars, dl, dlInode, sawStage, overlap, swapped>>

\* lines 47-58: the version file is read (or "unknown"), then
\* fs::metadata(&pending_binary)? and the empty-file test
ReadMeta ==
    /\ sp = "meta"
    /\ CASE stageBin = "none"  -> sp' = "dispatch" /\ UNCHANGED fileVars
         [] stageBin = "empty" -> sp' = "dispatch" /\ StageRemoved /\ UNCHANGED exe
         [] OTHER              -> sp' = "rename" /\ UNCHANGED fileVars
    /\ UNCHANGED <<migVars, chainVars, dl, dlInode, sawStage, overlap, swapped>>

\* line 62: fs::rename(&pending_binary, &current_exe) succeeds
Rename ==
    /\ sp = "rename"
    /\ stageBin # "none"
    /\ exe' = Installed(stageBin)
    /\ swapped' = IF StageComplete THEN "complete" ELSE "incomplete"
    /\ stageBin' = "none"
    /\ dlInode' = IF dl \in {"writing", "finishing"} THEN "exe" ELSE dlInode
    /\ sp' = "perm"
    /\ swaps' = swaps + 1
    /\ UNCHANGED <<migVars, depth, image, childEnd, parentExit, stageDir,
                   stageMarker, dl, sawStage, overlap>>

\* line 62: the rename fails (staging on another filesystem, no permission,
\* the file is gone); line 64 is next
RenameFails ==
    /\ sp = "rename"
    /\ sp' = "copy"
    /\ UNCHANGED <<migVars, chainVars, fileVars, dl, dlInode, sawStage, overlap, swapped>>

\* lines 64-68: fs::copy cannot open the source or the destination (the
\* file is gone, ETXTBSY, no permission): nothing is written, the stage is
\* removed and the rename error returned
CopyOpenFails ==
    /\ sp = "copy"
    /\ sp' = "dispatch"
    /\ StageRemoved
    /\ UNCHANGED <<migVars, chainVars, exe, dl, dlInode, sawStage, overlap, swapped>>

\* line 64: fs::copy opens the install path for writing and truncates it
CopyBegin ==
    /\ sp = "copy"
    /\ stageBin # "none"
    /\ sp' = "copying"
    /\ exe' = "torn"
    /\ UNCHANGED <<migVars, chainVars, stageDir, stageBin, stageMarker, dl, dlInode, sawStage,
                   overlap, swapped>>

\* line 64: fs::copy writes the last byte
CopyEnd ==
    /\ sp = "copying"
    /\ stageBin \notin {"none", "empty"}
    /\ exe' = Installed(stageBin)
    /\ swapped' = IF StageComplete THEN "complete" ELSE "incomplete"
    /\ sp' = "perm"
    /\ swaps' = swaps + 1
    /\ UNCHANGED <<migVars, depth, image, childEnd, parentExit, stageDir,
                   stageBin, stageMarker, dl, dlInode, sawStage, overlap>>

\* lines 64-68: fs::copy fails after it began to write (disk full, I/O
\* error); the stage is removed and the rename error returned
CopyFails ==
    /\ sp = "copying"
    /\ sp' = "dispatch"
    /\ StageRemoved
    /\ UNCHANGED <<migVars, chainVars, exe, dl, dlInode, sawStage, overlap, swapped>>

\* lines 72-79: fs::metadata(&current_exe)? and fs::set_permissions(..)?
SetPermissions(ok) ==
    /\ sp = "perm"
    /\ sp' = IF ok THEN "cleanup" ELSE "dispatch"
    /\ UNCHANGED <<migVars, chainVars, fileVars, dl, dlInode, sawStage, overlap, swapped>>

\* line 82: let _ = fs::remove_dir_all(&staging); a failed removal is ignored
\* and leaves the staging directory as it was
Cleanup(ok) ==
    /\ sp = "cleanup"
    /\ sp' = "reexec"
    /\ IF ok THEN StageRemoved ELSE UNCHANGED <<stageDir, stageBin, stageMarker>>
    /\ UNCHANGED <<migVars, chainVars, exe, dl, dlInode, sawStage, overlap, swapped>>

\* how a process that runs the command can end
ChildEnds == {"exit0", "exit1", "signal"}

\* status.code().unwrap_or(0): a child ended by a signal has no code
ExitCode(end) == IF end = "signal" THEN "exit0" ELSE end

\* lines 94-98: Command::new(&current_exe).args(..).status(). A spawn that
\* fails returns Err, and main goes on to its own dispatch (main.rs 30-35);
\* otherwise the child starts its own main while the parent waits.
ReExec(ok) ==
    /\ sp = "reexec"
    /\ IF ok
       THEN /\ exe \in Runnable
            /\ depth < MaxDepth
            /\ depth' = depth + 1
            /\ EnterCheck
            /\ overlap' = (overlap \/ dl # "idle")
            /\ UNCHANGED <<swaps, childEnd, parentExit>>
       ELSE /\ sp' = "dispatch"
            /\ UNCHANGED <<chainVars, sawStage, overlap, swapped>>
    /\ UNCHANGED <<migVars, fileVars, dl, dlInode>>

\* main.rs 37-: the command runs in the process that reached dispatch and
\* ends in one of ChildEnds; line 100: every waiting parent exits with
\* status.code().unwrap_or(0). The update poller starts a download when the
\* release is newer than the running version and not staged yet.
Dispatch(newer, end) ==
    /\ sp = "dispatch"
    /\ sp' = "off"
    /\ childEnd' = end
    /\ parentExit' = IF depth > 0 THEN ExitCode(end) ELSE "none"
    /\ dl' = IF newer /\ image = "old" /\ ~is_update_staged /\ dl = "idle"
             THEN "fetch" ELSE dl
    /\ UNCHANGED <<migVars, depth, swaps, image, fileVars, dlInode, sawStage,
                   overlap, swapped>>

KillProcess ==
    /\ sp \in {"parent", "meta", "rename", "copy", "copying", "perm", "cleanup",
               "reexec"}
    /\ sp' = "off"
    /\ UNCHANGED <<migVars, chainVars, fileVars, dl, dlInode, sawStage, overlap, swapped>>

(***************************************************************************)
(* Calls of the version functions                                          *)
(***************************************************************************)
\* Version strings handed to parse_version, is_newer and
\* get_pending_upgrades: "2", "1.2", "1.2.0", "1.2.3", "1.2.3.4", ..., and
\* strings with a component that is no number: "", "1.x", "1.2.x", "1.2.3.x"
VersionStrings ==
    { <<2>>, <<0, 9>>, <<1, 0>>, <<1, 1>>, <<1, 2>>, <<1, 3>>, <<1, 0, 0>>,
      <<1, 2, 0>>, <<1, 2, 3>>, <<1, 3, 0>>, <<2, 0, 0>>, <<1, 2, 3, 4>>,
      <<NonNumeric>>, <<1, NonNumeric>>, <<1, 2, NonNumeric>>,
      <<1, 2, 3, NonNumeric>> }

NoCall == [fn |-> "none", val |-> FALSE]

NoVersionCall == va = <<1, 0>> /\ vb = <<1, 0>> /\ vout = NoCall

CallParseVersion ==
    /\ vout = NoCall
    /\ vout' = [fn |-> "parse_version", val |-> parse_version(va)]
    /\ UNCHANGED <<storeVars, cmdVars, histVars, fileVars, sp, dl, dlInode,
                   sawStage, overlap, swapped, chainVars, va, vb, pollVars, bkVars>>

CallIsNewer ==
    /\ vout = NoCall
    /\ vout' = [fn |-> "is_newer", val |-> is_newer(va, vb)]
    /\ UNCHANGED <<storeVars, cmdVars, histVars, fileVars, sp, dl, dlInode,
                   sawStage, overlap, swapped, chainVars, va, vb, pollVars, bkVars>>

CallGetPendingUpgrades ==
    /\ vout = NoCall
    /\ vout' = [fn |-> "get_pending_upgrades", val |-> get_pending_upgrades(va, vb)]
    /\ UNCHANGED <<storeVars, cmdVars, histVars, fileVars, sp, dl, dlInode,
                   sawStage, overlap, swapped, chainVars, va, vb, pollVars, bkVars>>

(***************************************************************************)
(* Release poller (update_check.rs)                                        *)
(***************************************************************************)
CHECK_INTERVAL_HOURS == 24

\* versions the cache, the feed and the running tool can carry
PollVersions == { <<1, 9, 0>>, <<2, 0, 0>> }

\* ages of the cache file in hours
Ages == { -1, 1, 24, 25 }

NoCache == [state |-> "missing", latest_version |-> <<1, 9, 0>>]

CacheFiles == {NoCache} \cup [state : {"ok", "corrupt"}, latest_version : PollVersions]

NoPollerCall ==
    /\ cache = NoCache /\ cacheAge = 1 /\ cacheWritable = TRUE
    /\ feedUp = FALSE /\ feed = <<1, 9, 0>> /\ pkg_version = <<1, 9, 0>>
    /\ latest_version = None /\ fetches = 0 /\ pollResult = "none"

\* Mutant: the cache age is never trusted.
should_check_Always(c, age) == TRUE

\* fn should_check: true when the cache file does not exist, when its age
\* cannot be determined (duration_since fails for a modification time in the
\* future) and when more than CHECK_INTERVAL_HOURS have elapsed
should_check(c, age) ==
    IF c.state = "missing" THEN TRUE
    ELSE IF age >= 0 THEN age > CHECK_INTERVAL_HOURS
    ELSE TRUE

\* Mutant: the cache is never read back.
read_cache_Never(c) == None

\* fn read_cache: Some(cache) when the file reads and parses
read_cache(c) == IF c.state = "ok" THEN c.latest_version ELSE None

\* fn write_cache, its error ignored by the callers (let _ = ...)
write_cache(c, version) ==
    IF cacheWritable THEN [state |-> "ok", latest_version |-> version] ELSE c

\* fn fetch_latest_version: Some(version) or None
fetch_latest_version == IF feedUp THEN feed ELSE None

\* the unchanged rest of a poller step
PollerFrame ==
    UNCHANGED <<storeVars, cmdVars, histVars, verVars, fileVars, sp, dl, dlInode,
                sawStage, overlap, swapped, chainVars, cacheWritable, feedUp, feed,
                pkg_version, bkVars>>

\* pub fn check_and_notify() -> bool, called at the end of `proj enter`
\* (enter.rs line 63, the value dropped)
check_and_notify ==
    /\ pollResult = "none"
    /\ PollerFrame
    /\ IF should_check(cache, cacheAge)
       THEN /\ fetches' = fetches + 1
            /\ IF fetch_latest_version # None
               THEN /\ latest_version' = fetch_latest_version
                    /\ cache' = write_cache(cache, fetch_latest_version)
                    /\ cacheAge' = IF cacheWritable THEN 0 ELSE cacheAge
               ELSE /\ latest_version' = read_cache(cache)
                    /\ UNCHANGED <<cache, cacheAge>>
       ELSE /\ latest_version' = read_cache(cache)
            /\ UNCHANGED <<fetches, cache, cacheAge>>
    /\ pollResult' = IF latest_version' # None /\ is_newer(pkg_version, latest_version')
                     THEN "true" ELSE "false"

\* pub fn run() -> Result<()>: `proj update` fetches whatever the cache says
update_run ==
    /\ pollResult = "none"
    /\ PollerFrame
    /\ fetches' = fetches + 1
    /\ latest_version' = fetch_latest_version
    /\ IF fetch_latest_version # None
       THEN /\ cache' = write_cache(cache, fetch_latest_version)
            /\ cacheAge' = IF cacheWritable THEN 0 ELSE cacheAge
       ELSE UNCHANGED <<cache, cacheAge>>
    /\ pollResult' = "ok"

(***************************************************************************)
(* Specifications                                                          *)
(***************************************************************************)
\* One project with any recorded version and any config file; the other
\* registry entries are stale.
Init ==
    /\ \E k \in Broken \cup StoreKinds(StoreVersions, CfgStates) :
          InitStores([p \in Projects |-> IF p = "A" THEN k ELSE Gone])
    /\ InitCommand
    /\ NoRollback
    /\ InitUpdate
    /\ NoVersionCall
    /\ NoPollerCall

Next ==
    \/ \E p \in Projects, info \in BOOLEAN : UpgradeCurrentProject(p, info)
    \/ \E info, auto, typed \in BOOLEAN : UpgradeAllProjects(info, auto, typed)
    \/ ApplySkip
    \/ ApplyChange
    \/ ApplyChangeFails
    \/ ApplySetVersion
    \/ ApplyConfig
    \/ Interrupt
    \/ Exit
    \/ FleetApply
    \/ FleetDone
    \/ \E p \in Projects : DeleteStore(p)
    \/ \E p \in Projects : ConcurrentUpgrade(p)
    \/ \E p \in Projects, answer \in BOOLEAN : RollbackSchema(p, answer)

Spec == Init /\ [][Next]_vars

\* A fleet of three projects.
InitFleet ==
    /\ \E k \in [Projects -> {Gone} \cup StoreKinds(FleetVersions, {"ok", "unreadable"})] :
          InitStores(k)
    /\ InitCommand
    /\ NoRollback
    /\ InitUpdate
    /\ NoVersionCall
    /\ NoPollerCall

SpecFleet == InitFleet /\ [][Next]_vars

\* The self-update pipeline: process starts, the startup check, the
\* download thread and the exits and kills that cut them short.
InitSelfUpdate ==
    /\ InitStores([p \in Projects |-> Gone])
    /\ InitCommand
    /\ NoRollback
    /\ extraCheck = FALSE
    /\ InitUpdate
    /\ NoVersionCall
    /\ NoPollerCall

NextSelfUpdate ==
    \/ StartProcess
    \/ \E env \in {"ok", "err", "nowrite"} : CheckParent(env)
    \/ ReadMeta
    \/ Rename
    \/ RenameFails
    \/ CopyOpenFails
    \/ CopyBegin
    \/ CopyEnd
    \/ CopyFails
    \/ \E ok \in BOOLEAN : SetPermissions(ok)
    \/ \E ok \in BOOLEAN : Cleanup(ok)
    \/ \E ok \in BOOLEAN : ReExec(ok)
    \/ \E newer \in BOOLEAN, end \in ChildEnds : Dispatch(newer, end)
    \/ InstalledByOtherMeans
    \/ KillProcess
    \/ \E ok \in BOOLEAN : DlFetch(ok)
    \/ DlWipe
    \/ DlMkdir
    \/ DlCreateFile
    \/ DlWrite
    \/ DlFinishFile
    \/ DlUnpackFails
    \/ DlMarker
    \/ KillDownload

SpecSelfUpdate == InitSelfUpdate /\ [][NextSelfUpdate]_vars

\* The version functions, each called once on any pair of version strings.
InitVersions ==
    /\ InitStores([p \in Projects |-> Gone])
    /\ InitCommand
    /\ NoRollback
    /\ extraCheck = FALSE
    /\ InitUpdate
    /\ va \in VersionStrings
    /\ vb \in VersionStrings
    /\ vout = NoCall
    /\ NoPollerCall

NextVersions ==
    \/ CallParseVersion
    \/ CallIsNewer
    \/ CallGetPendingUpgrades

SpecVersions == InitVersions /\ [][NextVersions]_vars

\* One invocation of the poller on any cache file, cache age, release feed
\* and running version.
InitPoller ==
    /\ InitStores([p \in Projects |-> Gone])
    /\ InitCommand
    /\ NoRollback
    /\ extraCheck = FALSE
    /\ InitUpdate
    /\ NoVersionCall
    /\ cache \in CacheFiles
    /\ cacheAge \in (IF cache.state = "missing" THEN {1} ELSE Ages)
    /\ cacheWritable \in BOOLEAN
    /\ feedUp \in BOOLEAN
    /\ feed \in PollVersions
    /\ pkg_version \in PollVersions
    /\ latest_version = None
    /\ fetches = 0
    /\ pollResult = "none"

NextPoller ==
    \/ check_and_notify
    \/ update_run

SpecPoller == InitPoller /\ [][NextPoller]_vars

(***************************************************************************)
(* Properties of the schema upgrade                                        *)
(***************************************************************************)
Numeric(v) == Parts(v) = v /\ v # <<>>

\* v is below / above the from_version of every batch of the registry
BelowAll(v) ==
    \A i \in 1..Len(UPGRADE_REGISTRY) :
        compare_versions(Parts(v), Parts(UPGRADE_REGISTRY[i].from_version)) < 0

AboveAll(v) ==
    \A i \in 1..Len(UPGRADE_REGISTRY) :
        compare_versions(Parts(v), Parts(UPGRADE_REGISTRY[i].from_version)) > 0

NoPathReported(c) ==
    ~c.can_upgrade /\ "No upgrade path found" \in c.warnings

Applying == pc \in {"apply", "config"}

\* C1 as stated: a store whose recorded version is lower than the
\* from_version of every batch (0.9 against 1.0) gets "no upgrade path
\* found" with can_upgrade = false, and no migration step runs on it.
C1_BelowRegistryHasNoPath ==
    /\ \A p \in Projects :
          (compat[p].result = "ok" /\ Numeric(compat[p].current_version)
              /\ BelowAll(compat[p].current_version))
          => NoPathReported(compat[p])
    /\ (Numeric(startVersion) /\ BelowAll(startVersion)) => ~Applying /\ ranOps = {}

\* C1 amended: a store whose recorded version is above the from_version of
\* every batch and is not the target string (1.4, 2.0, 1.3.0 against
\* batches starting at 1.0, 1.1, 1.2) gets "no upgrade path found" with
\* can_upgrade = false, and apply_upgrades is never entered for it.
C1_AboveRegistryHasNoPath ==
    /\ \A p \in Projects :
          (compat[p].result = "ok" /\ AboveAll(compat[p].current_version)
              /\ compat[p].current_version # SCHEMA_VERSION)
          => NoPathReported(compat[p])
    /\ (startVersion # NoVersion /\ AboveAll(startVersion)
           /\ startVersion # SCHEMA_VERSION)
       => ~Applying /\ ranOps = {} /\ lastResult = "none"

C1_Witness ==
    /\ pc = "returned" /\ cmdResult = "cannot_upgrade"
    /\ compat["A"].current_version = <<1, 4>>
    /\ NoPathReported(compat["A"])

\* C2: version strings with the same triple are the same version for the
\* checker and for get_pending_upgrades: a readable store whose recorded
\* version has the triple of another string b gets the same up-to-date
\* verdict and the same pending batches as b would.
C2_SameTripleSameVersion ==
    \A p \in Projects : \A b \in StoreVersions \ {NoVersion} :
        (Reachable(p) /\ recVersion[p] # NoVersion
            /\ parse_version(recVersion[p]) # None
            /\ parse_version(recVersion[p]) = parse_version(b))
        => /\ (recVersion[p] = SCHEMA_VERSION) = (b = SCHEMA_VERSION)
           /\ get_pending_upgrades(recVersion[p], SCHEMA_VERSION)
                = get_pending_upgrades(b, SCHEMA_VERSION)

\* C3: once a change's sql has run on a store, the probe of the applier
\* reports it already applied (stated for the applier's probe alone).
C3_ProbeHoldsAfterOperation ==
    \A c \in ranOps : c \in structs[cur] => ApplierProbe(c, structs[cur])

\* C4: when an earlier apply left changes behind without recording the
\* version, the next apply on that store does not execute the sql of a
\* change that is already in effect, and - when no new fault hits it and the
\* config file is writable or absent - returns Ok with the target recorded.
C4_RetryAfterPartialFailure ==
    startPartial =>
        /\ ranOps \cap startStructs = {}
        /\ (lastResult # "none" /\ ~faulted /\ startCfg[1] \in {"ok", "absent"})
           => lastResult = "ok" /\ recVersion[cur] = SCHEMA_VERSION

\* C8: when a change fails, the recorded version and the config file's
\* schema_version are what they were when apply_upgrades was entered; the
\* version is written only after every pending change was run or skipped.
C8_FailedStepKeepsVersion ==
    /\ lastResult = "step_failed"
       => /\ recVersion[cur] = startVersion
          /\ <<cfgState[cur], cfgVersion[cur]>> = startCfg
    /\ pc = "apply" => recVersion[cur] = startVersion
    /\ pc = "config"
       => Range(Flatten(get_pending_upgrades(ReadVersion(startVersion),
                                             SCHEMA_VERSION)))
            \subseteq (ranOps \cup probed)

C8_Witness ==
    /\ lastResult = "step_failed"
    /\ structs[cur] # startStructs
    /\ startVersion # SCHEMA_VERSION

\* C9: once every change succeeded and the target version is in the store,
\* a config file that cannot be read or written does not fail the upgrade:
\* apply_upgrades returns Ok and a fleet run does not count a failure.
C9_ConfigFailureIsNoFailure ==
    (lastResult # "none" /\ recVersion[cur] = SCHEMA_VERSION
        /\ startVersion # SCHEMA_VERSION /\ db[cur] = "ok")
    => lastResult = "ok" /\ cur \notin applyFailed

C11_FleetGate ==
    [][ /\ (caller = "fleet" /\ storeVars' # storeVars)
           => (~infoMode /\ confirmed /\ cmdResult \in {"auto", "yes"})
        /\ (pc = "idle" /\ caller' = "fleet" /\ infoMode')
           => (pc' = "returned" /\ ~confirmed' /\ storeVars' = storeVars) ]_vars

C11_Witness ==
    /\ caller = "fleet" /\ cmdResult = "yes" /\ ~infoMode /\ confirmed
    /\ pc = "fleet_loop" /\ success_count = 1
    /\ recVersion["A"] = SCHEMA_VERSION

\* C12: the step that runs the Compatibility Checker (the start of either
\* command) and every step of a command run with --info leave the
\* structures and the recorded version of every store and every config file
\* as they were, and a command run with --info returns after the checker.
C12_CheckerChangesNothing ==
    [][ /\ (pc = "idle" \/ infoMode')
           => UNCHANGED <<recVersion, structs, cfgState, cfgVersion>>
        /\ (pc = "idle" /\ infoMode') => pc' = "returned" ]_vars

C12_Witness ==
    /\ pc = "returned" /\ infoMode /\ caller = "single" /\ cmdResult = "dry_run"
    /\ compat["A"].can_upgrade
    /\ \E i \in 1..Len(compat["A"].safe_changes) :
          compat["A"].safe_changes[i].status = "pending"
    /\ recVersion["A"] = <<1, 1>>

\* the changes a checker result classifies as pending
PendingOf(c) ==
    {c.safe_changes[i].change : i \in {j \in 1..Len(c.safe_changes) :
                                          c.safe_changes[j].status = "pending"}}

\* C13: the preview is exact.  When upgrade_current_project has run the
\* checker and then apply_upgrades on the same store and every pending
\* change was visited, the changes classified pending are the changes whose
\* sql was executed; and in a dry run a change is classified already_applied
\* exactly when its effect is present in the store.
C13_PreviewIsExact ==
    /\ (caller = "single" /\ lastResult \in {"ok", "config_failed"} /\ ~faulted)
       => PendingOf(compat[cur]) = ranOps
    /\ \A p \in Projects :
          (pc = "returned" /\ cmdResult = "dry_run" /\ compat[p].can_upgrade)
          => \A i \in 1..Len(compat[p].safe_changes) :
                (compat[p].safe_changes[i].status = "already_applied")
                    <=> (compat[p].safe_changes[i].change \in structs[p])

\* the reasons the errors bucket reports for project p
ReasonsOf(p) == {errors[i][2] : i \in {j \in 1..Len(errors) : errors[j][1] = p}}

\* in how many buckets (counting repetitions) project p was placed
Placements(p) ==
    Cardinality({i \in 1..Len(upgradeable) : upgradeable[i] = p})
    + Cardinality({i \in 1..Len(up_to_date) : up_to_date[i] = p})
    + Cardinality({i \in 1..Len(errors) : errors[i][1] = p})

\* C14: after the bucketing of a fleet run every registry entry is in
\* exactly one of upgradeable, up_to_date and errors; an entry whose path
\* does not exist is in errors with the reason "Path not found", which no
\* entry with an existing path gets; and a project for which the checker
\* found no upgrade path is in errors, never in up_to_date.
C14_BucketsPartition ==
    (caller = "fleet" /\ pc # "idle") =>
        \A p \in Projects :
            /\ Placements(p) = 1
            /\ ~pathExists[p] => ReasonsOf(p) = {"Path not found"}
            /\ pathExists[p] => "Path not found" \notin ReasonsOf(p)
            /\ NoPathReported(compat[p])
               => p \notin Range(up_to_date) /\ ReasonsOf(p) # {}

C14_Witness ==
    /\ caller = "fleet" /\ pc = "returned"
    /\ NoPathReported(compat["A"]) /\ compat["A"].current_version = <<1, 3, 0>>
    /\ errors = << <<"A", "">>, <<"B", "Path not found">>, <<"C", "Path not found">> >>

\* C17: a recorded version that is not a dotted numeric string is never
\* reported upgradeable and no change is run on its store; is_newer is
\* false for it on either side.
C17_UnparseableIsNotUpgraded ==
    /\ \A p \in Projects :
          (compat[p].result = "ok" /\ ~Numeric(compat[p].current_version))
          => /\ ~compat[p].can_upgrade
             /\ p \notin Range(upgradeable)
             /\ ~is_newer(compat[p].current_version, SCHEMA_VERSION)
             /\ ~is_newer(SCHEMA_VERSION, compat[p].current_version)
    /\ (startVersion # NoVersion /\ ~Numeric(startVersion))
       => ~Applying /\ ranOps = {}

\* the batches of the registry from the one that starts at v on
BatchesFrom(v) ==
    LET k == CHOOSE i \in 1..Len(UPGRADE_REGISTRY) : UPGRADE_REGISTRY[i].from_version = v
    IN  SubSeq(UPGRADE_REGISTRY, k, Len(UPGRADE_REGISTRY))

\* apply_upgrades was entered on, and has opened, a store whose recorded
\* version is the from_version of a batch, whose structures are those of
\* that version and whose config file is in order
StartsAtBatch ==
    /\ \E i \in 1..Len(UPGRADE_REGISTRY) : UPGRADE_REGISTRY[i].from_version = startVersion
    /\ startStructs = StructsAt(startVersion)
    /\ startCfg[1] = "ok"
    /\ (Applying \/ lastResult \notin {"none", "open_failed"})

\* C19: on such a store the changes are visited in ascending registry order
\* (a change is run only after every earlier change of the batches from the
\* recorded version on), none is skipped, and when no step was failed by the
\* environment apply_upgrades returns Ok having run every change of every
\* batch from there to the target, with the target version recorded in the
\* store and in the config file.
C19_UpgradeRunsEveryBatchInOrder ==
    StartsAtBatch =>
        LET todo == Flatten(BatchesFrom(startVersion)) IN
        /\ ranOps \subseteq Range(todo) /\ probed = {}
        /\ \A i, j \in 1..Len(todo) : (i < j /\ todo[j] \in ranOps) => todo[i] \in ranOps
        /\ (lastResult # "none" /\ ~faulted)
           => /\ lastResult = "ok"
              /\ ranOps = Range(todo)
              /\ recVersion[cur] = SCHEMA_VERSION
              /\ cfgVersion[cur] = SCHEMA_VERSION

C19_Witness ==
    /\ StartsAtBatch /\ startVersion = <<1, 0>> /\ caller = "single"
    /\ lastResult = "ok" /\ Cardinality(ranOps) = 5
    /\ recVersion["A"] = SCHEMA_VERSION /\ cfgVersion["A"] = SCHEMA_VERSION

\* C20: apply_upgrades entered on a store that is at the target (as it is
\* after a first application that returned Ok) executes no sql, probes
\* nothing and leaves structures and recorded version as they are, and it
\* returns Ok unless the environment fails it (the config file being one
\* that a first application could return Ok on); and for a store at the
\* target the checker reports an empty list of changes and can_upgrade =
\* false.
C20_SecondApplyIsNoOp ==
    /\ (startVersion = SCHEMA_VERSION
           /\ (Applying \/ lastResult \notin {"none", "open_failed"}))
       => /\ ranOps = {} /\ probed = {}
          /\ structs[cur] = startStructs
          /\ recVersion[cur] = SCHEMA_VERSION
          /\ (lastResult # "none" /\ ~faulted
                 /\ startCfg[1] \in {"ok", "absent", "unparseable"})
             => lastResult = "ok"
    /\ \A p \in Projects :
          (compat[p].result = "ok" /\ compat[p].current_version = SCHEMA_VERSION)
          => /\ ~compat[p].can_upgrade
             /\ compat[p].pending_upgrades = <<>>
             /\ compat[p].safe_changes = <<>>
             /\ compat[p].warnings = {}

C20_Witness ==
    /\ startVersion = SCHEMA_VERSION /\ caller = "fleet" /\ cur = "A"
    /\ lastResult = "ok" /\ ranOps = {}
    /\ success_count = 1
    /\ structs["A"] = Structures /\ recVersion["A"] = SCHEMA_VERSION

(***************************************************************************)
(* Properties of the self-update pipeline                                  *)
(***************************************************************************)
\* C5, for a start at which no download thread is alive: the startup
\* check swaps a staged binary over the executable only if the download
\* that produced it ran to completion (binary fully extracted and version
\* marker written).
C5_OnlyCompleteStageInstalled == ~overlap => swapped # "incomplete"

\* C6, for a complete stage and no concurrent download: at no point of the
\* swap does the install path hold a file that is neither the complete old
\* executable nor the complete new one.
C6_InstallPathAlwaysWhole ==
    (~overlap /\ sp \in {"copy", "copying"} /\ StageComplete) => exe \in {"old", "new"}

\* C7, for a start at which no download thread is alive: when the starting
\* process found a staged update, the staging directory is gone by the time
\* check_and_apply_pending has returned or re-executed.
C7_StageGoneAfterStartupCheck ==
    (~overlap /\ sawStage /\ sp \in {"dispatch", "exited"}) => ~stageDir

(***************************************************************************)
(* Properties of the version functions                                     *)
(***************************************************************************)
\* (a1, a2, a3) < (b1, b2, b3) in the lexicographic order
LexLess(a, b) ==
    \/ a[1] < b[1]
    \/ a[1] = b[1] /\ a[2] < b[2]
    \/ a[1] = b[1] /\ a[2] = b[2] /\ a[3] < b[3]

\* C15: for version strings a and b that parse, is_newer(a, b) is true
\* exactly when parse(a) < parse(b) in the lexicographic order on (major,
\* minor, patch); is_newer(a, a) is false; is_newer(a, b) and is_newer(b, a)
\* are never both true.
C15_IsNewerIsStrictOrder ==
    (vout.fn = "is_newer" /\ parse_version(va) # None /\ parse_version(vb) # None)
    => /\ vout.val = LexLess(parse_version(va), parse_version(vb))
       /\ va = vb => vout.val = FALSE
       /\ ~(vout.val /\ is_newer(vb, va))

C15_Witness ==
    /\ vout.fn = "is_newer" /\ vout.val = TRUE
    /\ va = <<1, 2>> /\ vb = <<1, 2, 3>>

\* a version string of one or two numeric components, padded with zeros
Padded(s) == IF Len(s) = 1 THEN <<s[1], 0, 0>> ELSE <<s[1], s[2], 0>>

\* C16: a dotted numeric string of two or fewer components parses to its
\* components padded with zeros: "1.2" to (1, 2, 0), "2" to (2, 0, 0).
C16_ShortVersionsArePadded ==
    (vout.fn = "parse_version" /\ Len(va) <= 2 /\ Numeric(va))
    => vout.val = Padded(va)

\* the batches of the registry whose from_version is >= current and whose
\* to_version is <= target as versions (triples), in registry order
BatchesBetween(current, target) ==
    SelectSeq(UPGRADE_REGISTRY, LAMBDA u :
        /\ ~LexLess(parse_version(u.from_version), parse_version(current))
        /\ ~LexLess(parse_version(target), parse_version(u.to_version)))

\* C18: for version strings that parse, get_pending_upgrades(current,
\* target) is the sequence of the batches with from_version >= current and
\* to_version <= target in registry order; it is empty when current and
\* target are the same string, and no returned batch has from_version >
\* target.
C18_PendingIsTheBatchesBetween ==
    (vout.fn = "get_pending_upgrades"
        /\ parse_version(va) # None /\ parse_version(vb) # None)
    => /\ vout.val = BatchesBetween(va, vb)
       /\ va = vb => vout.val = <<>>
       /\ \A i \in 1..Len(vout.val) :
             ~LexLess(parse_version(vb), parse_version(vout.val[i].from_version))

(***************************************************************************)
(* Properties of the release poller                                        *)
(***************************************************************************)
\* a step that is one call of check_and_notify
PollerStep == pollResult = "none" /\ pollResult' \in {"true", "false"}

\* C21: when the cache file reads and is not older than the check interval
\* (its age known), check_and_notify settles on the cached latest version,
\* makes no network fetch and leaves the cache as it is, whatever the
\* release feed holds.
C21_YoungCacheIsUsed ==
    [][ (PollerStep /\ cache.state = "ok"
            /\ cacheAge >= 0 /\ cacheAge <= CHECK_INTERVAL_HOURS)
        => /\ latest_version' = cache.latest_version
           /\ fetches' = fetches
           /\ cache' = cache ]_vars

C21_Witness ==
    /\ pollResult = "false" /\ fetches = 0
    /\ cache = [state |-> "ok", latest_version |-> <<1, 9, 0>>] /\ cacheAge = 1
    /\ feedUp /\ feed = <<2, 0, 0>>
    /\ pkg_version = <<1, 9, 0>>
    /\ latest_version = <<1, 9, 0>>

\* C22: when the cache file is missing or older than the interval,
\* check_and_notify makes one fetch; when it succeeds the fetched version
\* is the result and (the file being writable) the cache holds it; when it
\* fails the result is the cached version if the cache reads and otherwise
\* nothing, the call returning false; the call always returns a boolean.
C22_StaleCacheFetches ==
    [][ (pollResult = "none" /\ pollResult' # "none" /\ pollResult' # "ok"
            /\ (cache.state = "missing" \/ cacheAge > CHECK_INTERVAL_HOURS))
        => /\ pollResult' \in {"true", "false"}
           /\ fetches' = fetches + 1
           /\ feedUp => /\ latest_version' = feed
                        /\ cacheWritable
                           => cache' = [state |-> "ok", latest_version |-> feed]
           /\ (~feedUp /\ cache.state = "ok")
              => latest_version' = cache.latest_version /\ cache' = cache
           /\ (~feedUp /\ cache.state # "ok")
              => latest_version' = None /\ pollResult' = "false" /\ cache' = cache ]_vars

C22_Witness ==
    /\ pollResult = "true" /\ fetches = 1 /\ ~feedUp
    /\ cache = [state |-> "ok", latest_version |-> <<2, 0, 0>>] /\ cacheAge = 25
    /\ pkg_version = <<1, 9, 0>> /\ latest_version = <<2, 0, 0>>


(***************************************************************************)
(* Startup check: outcomes, re-execution chain                             *)
(***************************************************************************)
\* C23: every outcome of the startup check other than a swap reaches command
\* dispatch with the executable the process was started from still at the
\* install path (no download running beside the check).
C23_NoSwapKeepsExecutable ==
    (~overlap /\ sp = "dispatch" /\ swapped = "none") => exe = image


C25_ParentExitsAsChild ==
    ~overlap =>
        /\ (depth > 0 /\ childEnd # "none") => parentExit = childEnd
        /\ ~(sp = "dispatch" /\ swapped = "complete")


\* C29: the startup swap installs the staged release only over a strictly
\* older running version.
C29_SwapOnlyToNewer ==
    (~overlap /\ swapped = "complete") => Rank(image) < Rank(Installed("full"))


\* C30: a re-executed child finds no staged binary, and one user command
\* makes at most one swap.
C30_OneSwapPerCommand ==
    ~overlap => (swaps <= 1 /\ (depth > 0 => ~sawStage))


(***************************************************************************)
(* Properties of the upgrade command: backups, completeness, monotonicity  *)
(***************************************************************************)
\* C26: once apply_upgrades has opened a store, a backup of the project holds
\* the store as it was when the upgrade began, and a `rollback --schema` run
\* in that project after the attempt finds a backup.
C26_BackupBeforeUpgrade ==
    /\ (Applying \/ lastResult \notin {"none", "open_failed"})
       => /\ backups[cur].kept
          /\ backups[cur].recVersion = startVersion
          /\ backups[cur].structs = startStructs
    /\ (/\ lastResult \notin {"none", "open_failed"}
        /\ rollbackResult # <<>> /\ rollbackResult[1] = cur
        /\ rollbackResult[2] \notin {"no_config", "err"})
       => rollbackResult[2] \in {"restored", "cancelled"}

\* C27: when apply_upgrades has returned Ok on a store that was consistent
\* with its recorded numeric version, every change of every batch up to the
\* version now recorded is in effect in the store, whatever the starting
\* version was.
C27_RecordedVersionIsBacked ==
    (/\ lastResult = "ok" /\ ~faulted
     /\ startVersion # NoVersion /\ Numeric(startVersion)
     /\ startStructs = StructsAt(startVersion)
     /\ db[cur] = "ok" /\ pc = "returned")
    => /\ recVersion[cur] = SCHEMA_VERSION
       /\ StructsAt(recVersion[cur]) \subseteq structs[cur]


\* a numeric version string read as major.minor.patch, missing components 0
Pad3(v) == [i \in 1..3 |-> IF i <= Len(v) THEN v[i] ELSE 0]

\* the recorded version v of a store is a numeric version above the target
AboveTarget(v) == v # NoVersion /\ Numeric(v) /\ LexLess(Pad3(SCHEMA_VERSION), Pad3(v))

\* C28: no step of any upgrade command lowers the recorded version of a
\* store, and a store recorded above the target keeps its recorded version,
\* its structures and its config file.
C28_VersionNeverDecreases ==
    [][ \A p \in Projects :
          /\ (recVersion[p] # NoVersion /\ Numeric(recVersion[p]))
             => /\ recVersion'[p] # NoVersion /\ Numeric(recVersion'[p])
                /\ ~LexLess(Pad3(recVersion'[p]), Pad3(recVersion[p]))
          /\ AboveTarget(recVersion[p])
             => /\ recVersion'[p] = recVersion[p]
                /\ structs'[p] = structs[p]
                /\ cfgState'[p] = cfgState[p]
                /\ cfgVersion'[p] = cfgVersion[p]
      ]_vars

\* the single-project command has run, without --info, on a store recorded
\* above the target and returned without entering apply_upgrades
C28_Witness ==
    /\ pc = "returned" /\ ~infoMode /\ cmdResult = "cannot_upgrade"
    /\ compat["A"].result = "ok" /\ AboveTarget(compat["A"].current_version)
    /\ recVersion["A"] = <<1, 4>> /\ structs["A"] = StructsAt(<<1, 4>>)
    /\ lastResult = "none"

====
